---------------------------- MODULE Spec2Model ----------------------------
(***************************************************************************)
(* A model of the azure-podcast-generator Streamlit application:           *)
(*   - src/app/utils/speech.py   podcast_script_to_ssml, text_to_speech    *)
(*   - src/app/app.py            the session script (sources, generate)    *)
(*   - src/app/utils/llm.py      document_to_english_learning_podcast      *)
(*   - src/app/utils/video_scraper.py  BilibiliScraper.process_video       *)
(*                                                                         *)
(* Text is modelled as a sequence of characters (one-character strings).   *)
(* A markup tag emitted by the code is kept as one element of the sequence *)
(* (the whole tag as a string): no tag the code emits contains "(", "["    *)
(* or a newline, so no match of a marker, of a cue token or of a line      *)
(* break can start inside a tag or span one.                               *)
(***************************************************************************)
EXTENDS Integers, Sequences, FiniteSets, TLC

VARIABLES
    \* ---- podcast_script_to_ssml (speech.py) ----
    podcast_data,    \* the argument: [script, voice_1, voice_2]
    hashseed,        \* the process's string-hash seed: fixes set iteration order
    voice_mapping,   \* the local voice_mapping of the last call
    ssml,            \* the string returned by the last call
    prev_ssml,       \* the string returned by the call before it (same input)
    calls,           \* number of calls made on podcast_data (capped at 2)
    \* ---- one browser session of app.py ----
    rendered,        \* the page of a completed script run is in the browser
    session_keys,    \* the keys of st.session_state
    source_list,     \* st.session_state.source_list (<<>> while the key is missing)
    input_content,   \* st.session_state.input_content (<<>> while the key is missing)
    max_tokens,      \* max_tokens of lines 175-177 in the last run (UNBOUND: not assigned)
    last_run,        \* the handler the last run fired, and how it ended
    pc,              \* where the generate handler is: "idle", "llm", "tts"
    podcast_mode,    \* podcast_mode of the running generate handler
    document,        \* the document handed to script generation
    llm_calls,       \* script generation calls made by the last generate action
    llm_result,      \* how the script generation call ended
    tts_calls,       \* text_to_speech calls made by the last generate action
    tts_result,      \* the synthesis result the speech service reported
    audio,           \* the audio handed to st.audio by the last run
    gen_error,       \* the exception message st.error showed in the generate handler
    \* ---- document_to_english_learning_podcast (llm.py) ----
    completion,      \* what client.chat.completions.create does: message content, or raises
    learning_voices, \* the arguments <<voice_1, voice_2>>
    learning_pc,     \* "call": not called yet, "done": the call has ended
    learning_result, \* what the call returned or raised
    \* ---- BilibiliScraper.process_video (video_scraper.py) ----
    video_pc,        \* the statement process_video is at
    video_bvid,      \* the argument bvid
    temp_dir,        \* the directory temp exists
    temp_files       \* the files in temp (the bvids of temp/{bvid}.mp3)

ssmlVars == <<podcast_data, hashseed, voice_mapping, ssml, prev_ssml, calls>>

sourceVars == <<rendered, session_keys, source_list, input_content, max_tokens>>

generateVars ==
    <<pc, podcast_mode, document, llm_calls, llm_result, tts_calls, tts_result, audio,
      gen_error>>

sessionVars == <<sourceVars, last_run, generateVars>>

learningVars == <<completion, learning_voices, learning_pc, learning_result>>

videoVars == <<video_pc, video_bvid, temp_dir, temp_files>>

vars == <<ssmlVars, sessionVars, learningVars, videoVars>>

None == "None"

-----------------------------------------------------------------------------
(* Bounds of the model.                                                    *)

\* longest script whose speakers vary (turns)
MaxTurns == 3
\* longest message, in fragments of MessageFragments
MaxFrags == 3

-----------------------------------------------------------------------------
(* Python str operations, on sequences of characters.                      *)

\* s[i:i+len(pat)] == pat   (i is 1-based)
MatchAt(s, pat, i) ==
    /\ i >= 1
    /\ i + Len(pat) - 1 <= Len(s)
    /\ \A k \in 1..Len(pat) : s[i + k - 1] = pat[k]

\* pat in s
Contains(s, pat) == \E i \in 1..(Len(s) - Len(pat) + 1) : MatchAt(s, pat, i)

\* s.startswith(pat)
StartsWith(s, pat) == MatchAt(s, pat, 1)

\* s.replace(old, new) for non-empty old: one left-to-right pass over s, each
\* match replaced and the scan resumed after it (matches never overlap, and the
\* text written by a replacement is not scanned again).
RECURSIVE ReplaceFrom(_, _, _, _)
ReplaceFrom(s, old, new, i) ==
    IF i > Len(s) THEN <<>>
    ELSE IF MatchAt(s, old, i) THEN new \o ReplaceFrom(s, old, new, i + Len(old))
    ELSE <<s[i]>> \o ReplaceFrom(s, old, new, i + 1)

Replace(s, old, new) == ReplaceFrom(s, old, new, 1)

\* s.split("\n"): the pieces between line breaks
RECURSIVE SplitLinesFrom(_, _, _)
SplitLinesFrom(s, i, cur) ==
    IF i > Len(s) THEN <<cur>>
    ELSE IF s[i] = "\n" THEN <<cur>> \o SplitLinesFrom(s, i + 1, <<>>)
    ELSE SplitLinesFrom(s, i + 1, Append(cur, s[i]))

SplitLines(s) == SplitLinesFrom(s, 1, <<>>)

Whitespace == {" ", "\t", "\n", "\r"}

\* s.lstrip()
RECURSIVE LStrip(_)
LStrip(s) ==
    IF s # <<>> /\ Head(s) \in Whitespace THEN LStrip(Tail(s)) ELSE s

\* s.rstrip()
RECURSIVE RStrip(_)
RStrip(s) ==
    IF s # <<>> /\ s[Len(s)] \in Whitespace THEN RStrip(SubSeq(s, 1, Len(s) - 1)) ELSE s

\* s.strip()
Strip(s) == RStrip(LStrip(s))

\* the concatenation of a sequence of strings
RECURSIVE Concat(_)
Concat(ss) == IF ss = <<>> THEN <<>> ELSE Head(ss) \o Concat(Tail(ss))

-----------------------------------------------------------------------------
(* String literals of speech.py.                                           *)

CUE_LAUGHTER == <<"[", "l", "a", "u", "g", "h", "t", "e", "r", "]">>
CUE_LAUGHS == <<"[", "l", "a", "u", "g", "h", "s", "]">>
CUE_CHUCKLES == <<"[", "c", "h", "u", "c", "k", "l", "e", "s", "]">>
CN_MARKER == <<"(", "C", "N", ")">>

BREAK_300 == "<break time=\"300ms\"/>"
BREAK_200 == "<break time=\"200ms\"/>"
BREAK_500 == "<break time=\"500ms\"/>"
SAY_AS_OPEN == "<say-as interpret-as=\"interjection\">"
SAY_AS_CLOSE == "</say-as>"
LANG_OPEN == "<lang xml:lang=\"zh-CN\">"
LANG_CLOSE == "</lang>"
PROSODY_OPEN == "<prosody rate=\"0.95\">"
PROSODY_CLOSE == "</prosody>"
EXPRESS_OPEN == "<mstts:express-as style=\"chat\">"
EXPRESS_CLOSE == "</mstts:express-as>"
VOICE_CLOSE == "</voice>"
SPEAK_OPEN == "<speak version=\"1.0\" xmlns=\"http://www.w3.org/2001/10/synthesis\" xmlns:mstts=\"http://www.w3.org/2001/mstts\" xml:lang=\"en-US\">"
SPEAK_CLOSE == "</speak>"
NL == "\n"

\* '<break time="300ms"/> <say-as interpret-as="interjection">ha ha</say-as> <break time="200ms"/>'
HA_HA == <<BREAK_300, " ", SAY_AS_OPEN, "h", "a", " ", "h", "a", SAY_AS_CLOSE, " ", BREAK_200>>
\* '<break time="300ms"/> <say-as interpret-as="interjection">heh</say-as> <break time="200ms"/>'
HEH == <<BREAK_300, " ", SAY_AS_OPEN, "h", "e", "h", SAY_AS_CLOSE, " ", BREAK_200>>

\* f'<voice name="{voice}">'
VoiceOpen(voice) == <<"<voice name=\"", voice, "\">">>

-----------------------------------------------------------------------------
(* The voice catalog (const.py, not among the sources): display name ->    *)
(* engine voice identifier.                                                *)

VoiceNames == {"Andrew", "Emma"}

AZURE_HD_VOICES ==
    [n \in VoiceNames |->
        IF n = "Andrew" THEN "en-US-Andrew:DragonHDLatestNeural"
        ELSE "en-US-Emma:DragonHDLatestNeural"]

-----------------------------------------------------------------------------
(* Python's set of str: the iteration order is fixed by the process's hash *)
(* seed (random per process), not by insertion order.  A seed is modelled  *)
(* by the order it induces on the speaker names.                           *)

SpeakerNames == {"Host 1", "Host 2", "Andrew"}

HashSeeds ==
    {p \in [1..Cardinality(SpeakerNames) -> SpeakerNames] :
        \A i, j \in DOMAIN p : p[i] = p[j] => i = j}

\* list(set(names)) in a process with this seed
RECURSIVE ListOfSetFrom(_, _, _)
ListOfSetFrom(seed, S, i) ==
    IF i > Len(seed) THEN <<>>
    ELSE (IF seed[i] \in S THEN <<seed[i]>> ELSE <<>>) \o ListOfSetFrom(seed, S, i + 1)

ListOfSet(seed, S) == ListOfSetFrom(seed, S, 1)

\* the 0-based index of x in list (x occurs in it)
IndexOf(list, x) == (CHOOSE i \in DOMAIN list : list[i] = x) - 1

-----------------------------------------------------------------------------
(* podcast_script_to_ssml                                                  *)

\* process_text without the pass over [laughs]
process_text_NoLaughs(text) ==
    LET t1 == Replace(text, CUE_LAUGHTER, HA_HA)
        t3 == Replace(t1, CUE_CHUCKLES, HEH)
    IN  IF Contains(t3, CN_MARKER)
        THEN <<LANG_OPEN>> \o Replace(t3, CN_MARKER, <<>>) \o <<LANG_CLOSE>>
        ELSE t3

\* lines 61-82
process_text(text) ==
    LET t1 == Replace(text, CUE_LAUGHTER, HA_HA)
        t2 == Replace(t1, CUE_LAUGHS, HA_HA)
        t3 == Replace(t2, CUE_CHUCKLES, HEH)
    IN  IF Contains(t3, CN_MARKER)
        THEN <<LANG_OPEN>> \o Replace(t3, CN_MARKER, <<>>) \o <<LANG_CLOSE>>
        ELSE t3

\* speakers = list(set(item["name"] for item in podcast_data["script"]))
speakers(data, seed) ==
    ListOfSet(seed, {data.script[i].name : i \in DOMAIN data.script})

\* {speaker: voice_1 if i % 2 == 0 else voice_2 for i, speaker in enumerate(speakers)}
VoiceMappingOf(data, seed) ==
    LET sp == speakers(data, seed)
        voice_1 == AZURE_HD_VOICES[data.voice_1]
        voice_2 == AZURE_HD_VOICES[data.voice_2]
    IN  [s \in {sp[i] : i \in DOMAIN sp} |->
            IF IndexOf(sp, s) % 2 = 0 THEN voice_1 ELSE voice_2]

\* the loop iteration with the pause put after the express-as wrapper
RenderTurn_PauseAfterWrapper(item, voice) ==
    LET text == process_text(item.message)
    IN  IF Contains(item.message, CN_MARKER)
        THEN VoiceOpen(voice) \o <<EXPRESS_OPEN, PROSODY_OPEN>> \o text
                \o <<PROSODY_CLOSE, EXPRESS_CLOSE, BREAK_500, VOICE_CLOSE, NL>>
        ELSE VoiceOpen(voice) \o <<EXPRESS_OPEN>> \o text
                \o <<EXPRESS_CLOSE, BREAK_500, VOICE_CLOSE, NL>>

\* the text one loop iteration appends to ssml
RenderTurn(item, voice) ==
    LET text == process_text(item.message)
    IN  IF Contains(item.message, CN_MARKER)
        THEN VoiceOpen(voice) \o <<EXPRESS_OPEN, PROSODY_OPEN>> \o text
                \o <<BREAK_500, PROSODY_CLOSE, EXPRESS_CLOSE, VOICE_CLOSE, NL>>
        ELSE VoiceOpen(voice) \o <<EXPRESS_OPEN>> \o text
                \o <<BREAK_500, EXPRESS_CLOSE, VOICE_CLOSE, NL>>

podcast_script_to_ssml(data, seed) ==
    LET mapping == VoiceMappingOf(data, seed)
        blocks == [i \in DOMAIN data.script |->
                       RenderTurn(data.script[i], mapping[data.script[i].name])]
    IN  <<SPEAK_OPEN, NL>> \o Concat(blocks) \o <<SPEAK_CLOSE>>

-----------------------------------------------------------------------------
(* text_to_speech (speech.py): what the call does with the result of       *)
(* speak_ssml_async(ssml).get().                                           *)

COMPLETED == "SynthesizingAudioCompleted"
CANCELED == "Canceled"
\* any other ResultReason
OTHER_REASON == "SynthesizingAudioStarted"

\* the results the speech service can report: a completed synthesis carries the
\* whole audio; a synthesis that did not complete carries what was made so far
\* speak_ssml_async(ssml).get() raised instead of returning a result
SDK_RAISED == [reason |-> "raised", audio_data |-> "empty"]
\* no synthesis result (no call was made, or it has not returned)
NO_RESULT == [reason |-> "none", audio_data |-> "empty"]

SpeechResults ==
    { [reason |-> COMPLETED, audio_data |-> "complete"],
      [reason |-> CANCELED, audio_data |-> "partial"],
      [reason |-> CANCELED, audio_data |-> "empty"],
      [reason |-> OTHER_REASON, audio_data |-> "partial"] }

Returned(v) == [raised |-> FALSE, value |-> v]
Raised(msg) == [raised |-> TRUE, value |-> msg]

ERROR_DETAILS == "Error details: "
UNKNOWN_EXIT == "Unknown exit reason: "

\* text_to_speech handing back whatever audio a cancelled synthesis holds
text_to_speech_KeepsPartial(result) ==
    IF result = SDK_RAISED THEN Raised("speech SDK error")
    ELSE IF result.reason \in {COMPLETED, CANCELED} THEN Returned(result.audio_data)
    ELSE Raised(UNKNOWN_EXIT)

text_to_speech(result) ==
    IF result = SDK_RAISED THEN Raised("speech SDK error")
    ELSE IF result.reason = COMPLETED THEN Returned(result.audio_data)
    ELSE IF result.reason = CANCELED THEN Raised(ERROR_DETAILS)
    ELSE Raised(UNKNOWN_EXIT)

-----------------------------------------------------------------------------
(* The state of each part of the program before it is used.                *)

\* max_tokens in a run that does not reach line 175
UNBOUND == 0

\* the value of a result variable before the call
NOT_CALLED == Raised("not called")

\* no call of podcast_script_to_ssml is under way
SsmlIdle ==
    /\ podcast_data = [script |-> <<>>, voice_1 |-> "Andrew", voice_2 |-> "Emma"]
    /\ hashseed = <<"Host 1", "Host 2", "Andrew">>
    /\ voice_mapping = None
    /\ ssml = None
    /\ prev_ssml = None
    /\ calls = 0

\* a session before its first script run
SessionIdle ==
    /\ rendered = FALSE
    /\ session_keys = {}
    /\ source_list = <<>>
    /\ input_content = <<>>
    /\ max_tokens = UNBOUND
    /\ last_run = [handler |-> "none", result |-> "none"]
    /\ pc = "idle"
    /\ podcast_mode = None
    /\ document = None
    /\ llm_calls = 0
    /\ llm_result = None
    /\ tts_calls = 0
    /\ tts_result = NO_RESULT
    /\ audio = None
    /\ gen_error = None

\* no call of document_to_english_learning_podcast has been made
LearningIdle ==
    /\ completion = NOT_CALLED
    /\ learning_voices = <<"Andrew", "Emma">>
    /\ learning_pc = "call"
    /\ learning_result = NOT_CALLED

\* no call of process_video has been made
VideoIdle ==
    /\ video_pc = "fetch"
    /\ video_bvid = "BV1GJ411x7h7"
    /\ temp_dir = FALSE
    /\ temp_files = {}

-----------------------------------------------------------------------------
(* Inputs of podcast_script_to_ssml.                                       *)

\* all sequences over S of length at most n
SeqsUpTo(S, n) == UNION {[1..k -> S] : k \in 0..n}

MessageFragments ==
    { CN_MARKER, <<"(", "C">>, <<"N", ")">>, CUE_LAUGHTER, <<"h", "i">>, <<" ">> }

Messages == {Concat(fs) : fs \in SeqsUpTo(MessageFragments, MaxFrags)}

\* the messages of the scripts whose speakers vary
TurnMessages == { <<"h", "i">>, CN_MARKER \o <<" ", "n", "i">> }

Turn(n, m) == [name |-> n, message |-> m]

\* scripts of up to MaxTurns turns over all speakers
VoiceScripts ==
    SeqsUpTo({Turn(n, m) : n \in SpeakerNames, m \in TurnMessages}, MaxTurns)

\* the pieces of the messages that hold cue tokens: the three tokens, a token in
\* another letter case, the two halves of a token, and text
CueFragments ==
    { CUE_LAUGHTER, CUE_LAUGHS, CUE_CHUCKLES,
      <<"[", "L", "a", "u", "g", "h", "s", "]">>,
      <<"[", "l", "a", "u", "g">>, <<"h", "s", "]">>, <<"h", "i">> }

CueMessages == {Concat(fs) : fs \in SeqsUpTo(CueFragments, MaxFrags)}

\* one-turn scripts over all messages
TextScripts == {<<Turn("Andrew", m)>> : m \in Messages}

\* one-turn scripts over the messages with cue tokens
CueScripts == {<<Turn("Andrew", m)>> : m \in Messages \cup CueMessages}

PodcastInputs ==
    {[script |-> s, voice_1 |-> v1, voice_2 |-> v2] :
        s \in VoiceScripts, v1 \in VoiceNames, v2 \in VoiceNames}
    \cup
    {[script |-> s, voice_1 |-> "Andrew", voice_2 |-> "Emma"] : s \in TextScripts}

-----------------------------------------------------------------------------
(* The session script app.py.  One action is one user action: the script   *)
(* run it triggers, from the top of the file to its end (a blocking call   *)
(* of the generate handler splits its run into steps).                     *)

\* longest source list
MaxSources == 5

base_tokens == 3000
tokens_per_source == 1000
TOKEN_CAP == 6000
SLIDER_MIN == 1000
SLIDER_MAX == 6000

Min(a, b) == IF a <= b THEN a ELSE b

\* document_response.markdown of a successful extraction
Contents == { <<"a">>, <<"b">> }

\* the text of a form's input field when it is submitted
Urls == { "", "https://example.org" }
Bvids == { "", "1GJ411x7h7" }

\* the item the web handler appends (its timestamp is only displayed)
WebItem(url, markdown) == [type |-> "web", url |-> url, content |-> markdown]
\* the item the video handler appends
VideoItem(bvid, markdown) ==
    [type |-> "bilibili", url |-> <<"BV", bvid>>, content |-> markdown]

\* "\n\n".join(contents)
RECURSIVE JoinContents(_)
JoinContents(contents) ==
    IF contents = <<>> THEN <<>>
    ELSE IF Len(contents) = 1 THEN contents[1]
    ELSE contents[1] \o <<NL, NL>> \o JoinContents(Tail(contents))

\* "\n".join(contents): a single line break as separator
RECURSIVE JoinContentsNewline(_)
JoinContentsNewline(contents) ==
    IF contents = <<>> THEN <<>>
    ELSE IF Len(contents) = 1 THEN contents[1]
    ELSE contents[1] \o <<NL>> \o JoinContentsNewline(Tail(contents))

combined_content_Newline(list) ==
    JoinContentsNewline([i \in DOMAIN list |-> list[i].content])

\* lines 167-169
combined_content(list) == JoinContents([i \in DOMAIN list |-> list[i].content])

\* the budget counting every source as an additional one
SuggestedTokens_PerSource(list) ==
    Min(base_tokens + Len(list) * tokens_per_source, TOKEN_CAP)

\* lines 173-177
SuggestedTokens(list) ==
    Min(base_tokens + (Len(list) - 1) * tokens_per_source, TOKEN_CAP)

\* list.pop(idx) for an index of the list (idx is 0-based)
Pop(list, idx) == [i \in 1..(Len(list) - 1) |-> IF i <= idx THEN list[i] ELSE list[i + 1]]

\* lines 110-126: the video submit handler; the value is the session's list after it
\* and how the handler ended.  Reading st.session_state.source_list when the key
\* is missing raises AttributeError inside the try.
VideoHandler(keys, list, bvid, scraped) ==
    IF bvid = "" THEN [list |-> list, result |-> "skipped"]
    ELSE IF scraped.raised THEN [list |-> list, result |-> "error"]
    ELSE IF "source_list" \notin keys THEN [list |-> list, result |-> "error"]
    ELSE [list |-> Append(list, VideoItem(bvid, scraped.value)), result |-> "ok"]

\* lines 129-130
InitSourceList(keys, list) == IF "source_list" \notin keys THEN <<>> ELSE list

\* the web handler appending its item before the extraction has returned
WebHandler_AppendsFirst(list, url, scraped) ==
    IF url = "" THEN [list |-> list, result |-> "skipped"]
    ELSE IF scraped.raised
    THEN [list |-> Append(list, WebItem(url, <<>>)), result |-> "error"]
    ELSE [list |-> Append(list, WebItem(url, scraped.value)), result |-> "ok"]

\* lines 133-149: the web submit handler
WebHandler(list, url, scraped) ==
    IF url = "" THEN [list |-> list, result |-> "skipped"]
    ELSE IF scraped.raised THEN [list |-> list, result |-> "error"]
    ELSE [list |-> Append(list, WebItem(url, scraped.value)), result |-> "ok"]

\* what an extraction call can do: return the markdown, or raise
Extractions == {Returned(c) : c \in Contents} \cup {Raised("extraction failed")}

\* the rest of the run when lines 129-130 do not store the list they made
ShowSources_ListNotStored(list) ==
    IF list # <<>>
    THEN /\ input_content' = combined_content(list)
         /\ max_tokens' = SuggestedTokens(list)
         /\ session_keys' = session_keys \cup {"source_list", "input_content"}
    ELSE /\ input_content' = input_content
         /\ max_tokens' = UNBOUND
         /\ session_keys' = session_keys

\* lines 129-130 (the key is stored) and 151-210 up to the generate button, for
\* the list the handlers left
ShowSources(list) ==
    IF list # <<>>
    THEN /\ input_content' = combined_content(list)
         /\ max_tokens' = SuggestedTokens(list)
         /\ session_keys' = session_keys \cup {"source_list", "input_content"}
    ELSE /\ input_content' = input_content
         /\ max_tokens' = UNBOUND
         /\ session_keys' = session_keys \cup {"source_list"}

\* nothing of a generate action is on the page of this run
NoGenerate ==
    /\ pc' = "idle"
    /\ podcast_mode' = None
    /\ document' = None
    /\ llm_calls' = 0
    /\ llm_result' = None
    /\ tts_calls' = 0
    /\ tts_result' = NO_RESULT
    /\ audio' = None
    /\ gen_error' = None

\* the first run of a session: no widget has a value yet
FirstRun ==
    /\ ~rendered
    /\ pc = "idle"
    /\ rendered' = TRUE
    /\ source_list' = InitSourceList(session_keys, source_list)
    /\ ShowSources(source_list')
    /\ last_run' = [handler |-> "first", result |-> "ok"]
    /\ NoGenerate

\* the value of the file uploader when the document form is submitted ("": no
\* file was chosen)
UploadedFiles == { "", "notes.pdf" }

\* the document form is submitted (lines 87-98): no line of the script reads
\* doc_submit or uploaded_file, so a chosen file is ignored
DocSubmitRun ==
    /\ rendered
    /\ pc = "idle"
    /\ source_list' = InitSourceList(session_keys, source_list)
    /\ ShowSources(source_list')
    /\ \E uploaded_file \in UploadedFiles :
        last_run' = [handler |-> "document",
                     result |-> IF uploaded_file = "" THEN "skipped" ELSE "ignored"]
    /\ NoGenerate
    /\ UNCHANGED rendered

\* the video form is submitted with bvid in its field
VideoSubmitRun ==
    /\ rendered
    /\ pc = "idle"
    /\ \E bvid \in Bvids, scraped \in Extractions :
        LET h == VideoHandler(session_keys, source_list, bvid, scraped)
        IN  /\ Len(h.list) <= MaxSources
            /\ source_list' = InitSourceList(session_keys, h.list)
            /\ last_run' = [handler |-> "video", result |-> h.result]
    /\ ShowSources(source_list')
    /\ NoGenerate
    /\ UNCHANGED rendered

\* the web form is submitted with url in its field
WebSubmitRun ==
    /\ rendered
    /\ pc = "idle"
    /\ \E url \in Urls, scraped \in Extractions :
        LET h == WebHandler(InitSourceList(session_keys, source_list), url, scraped)
        IN  /\ Len(h.list) <= MaxSources
            /\ source_list' = h.list
            /\ last_run' = [handler |-> "web", result |-> h.result]
    /\ ShowSources(source_list')
    /\ NoGenerate
    /\ UNCHANGED rendered

\* a "Remove Source" button of the page is clicked: lines 162-164 pop the item
\* and st.rerun() starts the script again at once, with no widget triggered
RemoveRun ==
    /\ rendered
    /\ pc = "idle"
    /\ \E idx \in 0..(Len(source_list) - 1) :
        source_list' = Pop(source_list, idx)
    /\ ShowSources(source_list')
    /\ last_run' = [handler |-> "remove", result |-> "ok"]
    /\ NoGenerate
    /\ UNCHANGED rendered

PodcastModes == {"Standard Podcast", "English Learning (JP/EN)"}

\* how a script generation call ends: it returns a response whose podcast has a
\* script, it returns one whose JSON has no "script" (standard mode parses the
\* model's JSON as it comes), or it raises
LlmResults(mode) ==
    {"script", "raise"} \cup (IF mode = "Standard Podcast" THEN {"no script"} ELSE {})

\* "Generate Podcast" is clicked: the run reaches line 214 and calls the script
\* generation of the selected mode with st.session_state.input_content
GenerateClick ==
    /\ rendered
    /\ pc = "idle"
    /\ source_list # <<>>
    /\ ShowSources(source_list)
    /\ \E mode \in PodcastModes : podcast_mode' = mode
    /\ document' = input_content'
    /\ llm_calls' = 1
    /\ llm_result' = None
    /\ tts_calls' = 0
    /\ tts_result' = NO_RESULT
    /\ audio' = None
    /\ gen_error' = None
    /\ pc' = "llm"
    /\ last_run' = [handler |-> "generate", result |-> "running"]
    /\ UNCHANGED <<rendered, source_list>>

\* lines 217-244: the generation call ends; on success podcast_data is built,
\* assembled and handed to text_to_speech
LlmReturns ==
    /\ pc = "llm"
    /\ \E r \in LlmResults(podcast_mode) :
        /\ llm_result' = r
        /\ IF r = "script"
           THEN /\ pc' = "tts"
                /\ tts_calls' = tts_calls + 1
                /\ gen_error' = gen_error
                /\ last_run' = last_run
           ELSE /\ pc' = "idle"
                /\ tts_calls' = tts_calls
                /\ gen_error' = (IF r = "raise" THEN "generation failed" ELSE "'script'")
                /\ last_run' = [handler |-> "generate", result |-> "error"]
    /\ UNCHANGED <<sourceVars, podcast_mode, document, llm_calls, tts_result, audio>>

\* lines 244-254: speak_ssml_async(ssml).get() ends with a result, or the
\* speech SDK raises
SpeechReturns ==
    /\ pc = "tts"
    /\ \E result \in SpeechResults \cup {SDK_RAISED} :
        LET r == text_to_speech(result)
        IN  /\ tts_result' = result
            /\ audio' = (IF r.raised THEN None ELSE r.value)
            /\ gen_error' = (IF r.raised THEN r.value ELSE None)
            /\ last_run' =
                [handler |-> "generate", result |-> IF r.raised THEN "error" ELSE "ok"]
    /\ pc' = "idle"
    /\ UNCHANGED <<sourceVars, podcast_mode, document, llm_calls, llm_result, tts_calls>>

Init == SsmlIdle /\ SessionIdle /\ LearningIdle /\ VideoIdle

Next ==
    \/ FirstRun /\ UNCHANGED <<ssmlVars, learningVars, videoVars>>
    \/ DocSubmitRun /\ UNCHANGED <<ssmlVars, learningVars, videoVars>>
    \/ VideoSubmitRun /\ UNCHANGED <<ssmlVars, learningVars, videoVars>>
    \/ WebSubmitRun /\ UNCHANGED <<ssmlVars, learningVars, videoVars>>
    \/ RemoveRun /\ UNCHANGED <<ssmlVars, learningVars, videoVars>>
    \/ GenerateClick /\ UNCHANGED <<ssmlVars, learningVars, videoVars>>
    \/ LlmReturns /\ UNCHANGED <<ssmlVars, learningVars, videoVars>>
    \/ SpeechReturns /\ UNCHANGED <<ssmlVars, learningVars, videoVars>>

Spec == Init /\ [][Next]_vars

-----------------------------------------------------------------------------
(* document_to_english_learning_podcast (llm.py)                           *)

HOST_1 == <<"H", "o", "s", "t", " ", "1", ":">>
HOST_2 == <<"H", "o", "s", "t", " ", "2", ":">>
PART_1 == <<"P", "a", "r", "t", " ", "1", ":">>
PART_2 == <<"P", "a", "r", "t", " ", "2", ":">>
PART_3 == <<"P", "a", "r", "t", " ", "3", ":">>
SUMMARY_DISCUSSION ==
    <<"S", "u", "m", "m", "a", "r", "y", " ", "D", "i", "s", "c", "u", "s", "s", "i", "o", "n">>
LANGUAGE_FOCUS ==
    <<"L", "a", "n", "g", "u", "a", "g", "e", " ", "F", "o", "c", "u", "s">>
DISCUSSION_QUESTIONS ==
    <<"D", "i", "s", "c", "u", "s", "s", "i", "o", "n", " ", "Q", "u", "e", "s", "t", "i", "o", "n", "s">>

NO_VALID_SCRIPT == "No valid script content generated"
LEARNING_ERROR == "Error generating English learning podcast: "

\* lines 250-258: the section a header line starts ("": the line is no header)
HeaderSection(line) ==
    IF Contains(line, PART_1) \/ Contains(line, SUMMARY_DISCUSSION) THEN "summary"
    ELSE IF Contains(line, PART_2) \/ Contains(line, LANGUAGE_FOCUS) THEN "language_focus"
    ELSE IF Contains(line, PART_3) \/ Contains(line, DISCUSSION_QUESTIONS) THEN "questions"
    ELSE ""

\* lines 260-277: the items a line that is no header appends to podcast_script
HostItems(line, section, voice_1, voice_2) ==
    IF StartsWith(line, HOST_1)
    THEN <<[name |-> "Host 1", message |-> Strip(Replace(line, HOST_1, <<>>)),
            voice |-> voice_1, section |-> section]>>
    ELSE IF StartsWith(line, HOST_2)
    THEN <<[name |-> "Host 2", message |-> Strip(Replace(line, HOST_2, <<>>)),
            voice |-> voice_2, section |-> section]>>
    ELSE <<>>

\* lines 245-277: the loop over the lines, from line i on
RECURSIVE ParseLinesFrom(_, _, _, _, _)
ParseLinesFrom(lines, i, current_section, voice_1, voice_2) ==
    IF i > Len(lines) THEN <<>>
    ELSE IF Strip(lines[i]) = <<>>
    THEN ParseLinesFrom(lines, i + 1, current_section, voice_1, voice_2)
    ELSE IF HeaderSection(lines[i]) # ""
    THEN ParseLinesFrom(lines, i + 1, HeaderSection(lines[i]), voice_1, voice_2)
    ELSE HostItems(lines[i], current_section, voice_1, voice_2)
            \o ParseLinesFrom(lines, i + 1, current_section, voice_1, voice_2)

\* the podcast_script built from the message content
ParseScript(content, voice_1, voice_2) ==
    ParseLinesFrom(SplitLines(content), 1, "", voice_1, voice_2)

\* the function without the check of lines 279-281
document_to_english_learning_podcast_NoCheck(reply, voice_1, voice_2) ==
    IF reply.raised THEN Raised(<<LEARNING_ERROR, reply.value>>)
    ELSE Returned([script |-> ParseScript(reply.value, voice_1, voice_2),
                   config |-> [language |-> "en-US"],
                   tokens |-> Len(reply.value)])

\* lines 220-292; reply is what the chat completion call did
document_to_english_learning_podcast(reply, voice_1, voice_2) ==
    IF reply.raised THEN Raised(<<LEARNING_ERROR, reply.value>>)
    ELSE LET podcast_script == ParseScript(reply.value, voice_1, voice_2)
         IN  IF podcast_script = <<>> THEN Raised(<<LEARNING_ERROR, NO_VALID_SCRIPT>>)
             ELSE Returned([script |-> podcast_script,
                            config |-> [language |-> "en-US"],
                            tokens |-> Len(reply.value)])

\* most lines in a model reply
MaxLines == 3

HI == <<" ", "h", "i">>

\* the lines a model reply is made of
ReplyLines ==
    { HOST_1 \o HI,
      HOST_2 \o <<" ">> \o CN_MARKER \o HI,
      PART_1 \o <<" ">> \o SUMMARY_DISCUSSION,
      <<"#", " ">> \o LANGUAGE_FOCUS,
      PART_3,
      <<>>,
      <<" ", " ">>,
      <<" ">> \o HOST_1 \o HI,
      HOST_1 \o HI \o <<" ">> \o PART_2,
      HOST_2 \o <<" ">> \o HOST_2 \o HI,
      HI,
      HOST_1 }

\* "\n".join(lines)
RECURSIVE JoinLines(_)
JoinLines(lines) ==
    IF lines = <<>> THEN <<>>
    ELSE IF Len(lines) = 1 THEN lines[1]
    ELSE lines[1] \o <<"\n">> \o JoinLines(Tail(lines))

Replies ==
    {Returned(JoinLines(ls)) : ls \in SeqsUpTo(ReplyLines, MaxLines)}
    \cup {Raised("chat completion failed")}

InitLearning ==
    /\ SsmlIdle
    /\ SessionIdle
    /\ VideoIdle
    /\ completion \in Replies
    /\ learning_voices \in VoiceNames \X VoiceNames
    /\ learning_pc = "call"
    /\ learning_result = NOT_CALLED

LearningPodcast ==
    /\ learning_pc = "call"
    /\ learning_pc' = "done"
    /\ learning_result' =
        document_to_english_learning_podcast(completion, learning_voices[1],
                                             learning_voices[2])
    /\ UNCHANGED <<completion, learning_voices, ssmlVars, sessionVars, videoVars>>

NextLearning == LearningPodcast

SpecLearning == InitLearning /\ [][NextLearning]_vars

-----------------------------------------------------------------------------
(* BilibiliScraper.process_video (video_scraper.py), statement by          *)
(* statement.  Every call to the network, the file system or the           *)
(* transcription service either succeeds or raises; an exception raised    *)
(* inside the try is wrapped and raised again at lines 106-107.            *)

VideoBvids == {"BV1GJ411x7h7", "BV1xx411c7mD", "BV17x411w7KC"}

InitVideo ==
    /\ SsmlIdle
    /\ SessionIdle
    /\ LearningIdle
    /\ video_pc = "fetch"
    /\ video_bvid \in VideoBvids
    /\ temp_dir = FALSE
    /\ temp_files = {}

\* a statement at pc that only computes: go to next, or raise
VideoStep(at, next) ==
    /\ video_pc = at
    /\ \E ok \in BOOLEAN : video_pc' = IF ok THEN next ELSE "raised"
    /\ UNCHANGED <<video_bvid, temp_dir, temp_files>>

\* lines 61-62: requests.get(url)
FetchPage == VideoStep("fetch", "parse")

\* lines 65-72: title, play info and audio URL out of the page
ParsePage == VideoStep("parse", "download")

\* line 75: requests.get(audio_url).content
DownloadAudio == VideoStep("download", "mkdir")

\* lines 78-80: os.makedirs(temp_dir) unless it exists
MakeTempDir ==
    /\ video_pc = "mkdir"
    /\ \E ok \in BOOLEAN :
        IF temp_dir \/ ok
        THEN video_pc' = "write" /\ temp_dir' = TRUE
        ELSE video_pc' = "raised" /\ temp_dir' = temp_dir
    /\ UNCHANGED <<video_bvid, temp_files>>

\* lines 82-84: open(audio_path, "wb") creates (or truncates) the file, then the
\* content is written; either may fail
WriteAudioFile ==
    /\ video_pc = "write"
    /\ \E outcome \in {"written", "open failed", "write failed"} :
        /\ video_pc' = IF outcome = "written" THEN "client" ELSE "raised"
        /\ temp_files' =
            IF outcome = "open failed" THEN temp_files
            ELSE temp_files \cup {video_bvid}
    /\ UNCHANGED <<video_bvid, temp_dir>>

\* lines 87-91: AzureOpenAI(...)
CreateClient == VideoStep("client", "transcribe")

\* lines 93-96: client.audio.transcriptions.create(file=audio_file, ...)
Transcribe == VideoStep("transcribe", "remove")

\* lines 98-99: os.remove(audio_path)
RemoveAudioFile ==
    /\ video_pc = "remove"
    /\ video_pc' = "return"
    /\ temp_files' = temp_files \ {video_bvid}
    /\ UNCHANGED <<video_bvid, temp_dir>>

\* lines 102-104
ReturnDocument ==
    /\ video_pc = "return"
    /\ video_pc' = "returned"
    /\ UNCHANGED <<video_bvid, temp_dir, temp_files>>

\* the next call of process_video, in the same working directory
CallProcessVideo ==
    /\ video_pc \in {"returned", "raised"}
    /\ video_pc' = "fetch"
    /\ video_bvid' \in VideoBvids
    /\ UNCHANGED <<temp_dir, temp_files>>

otherThanVideo == <<ssmlVars, sessionVars, learningVars>>

NextVideo ==
    \/ FetchPage /\ UNCHANGED otherThanVideo
    \/ ParsePage /\ UNCHANGED otherThanVideo
    \/ DownloadAudio /\ UNCHANGED otherThanVideo
    \/ MakeTempDir /\ UNCHANGED otherThanVideo
    \/ WriteAudioFile /\ UNCHANGED otherThanVideo
    \/ CreateClient /\ UNCHANGED otherThanVideo
    \/ Transcribe /\ UNCHANGED otherThanVideo
    \/ RemoveAudioFile /\ UNCHANGED otherThanVideo
    \/ ReturnDocument /\ UNCHANGED otherThanVideo
    \/ CallProcessVideo /\ UNCHANGED otherThanVideo

SpecVideo == InitVideo /\ [][NextVideo]_vars

-----------------------------------------------------------------------------
(* The assembler called on one input, possibly again after a restart of    *)
(* the process.                                                            *)

InitSsml ==
    /\ SessionIdle
    /\ LearningIdle
    /\ VideoIdle
    /\ podcast_data \in PodcastInputs
    /\ hashseed \in HashSeeds
    /\ voice_mapping = None
    /\ ssml = None
    /\ prev_ssml = None
    /\ calls = 0

\* one call of podcast_script_to_ssml(podcast_data)
Assemble ==
    /\ calls < 2
    /\ calls' = calls + 1
    /\ voice_mapping' = VoiceMappingOf(podcast_data, hashseed)
    /\ ssml' = podcast_script_to_ssml(podcast_data, hashseed)
    /\ prev_ssml' = ssml
    /\ UNCHANGED <<podcast_data, hashseed, sessionVars, learningVars, videoVars>>

\* the server process is started again: a new hash seed
Restart ==
    /\ calls = 1
    /\ hashseed' \in HashSeeds \ {hashseed}
    /\ UNCHANGED <<podcast_data, voice_mapping, ssml, prev_ssml, calls, sessionVars, learningVars, videoVars>>

NextSsml == Assemble \/ Restart

SpecSsml == InitSsml /\ [][NextSsml]_vars

\* podcast_script_to_ssml called on a script of one turn
InitText ==
    /\ SessionIdle
    /\ LearningIdle
    /\ VideoIdle
    /\ podcast_data \in
        {[script |-> s, voice_1 |-> "Andrew", voice_2 |-> "Emma"] : s \in CueScripts}
    /\ hashseed \in HashSeeds
    /\ voice_mapping = None
    /\ ssml = None
    /\ prev_ssml = None
    /\ calls = 0

NextText == Assemble

SpecText == InitText /\ [][NextText]_vars

-----------------------------------------------------------------------------
(* The generate handler in the English learning mode (app.py lines          *)
(* 231-241): the script generation call, then the assembly of the script   *)
(* it returned.                                                            *)

InitBilingual ==
    /\ SessionIdle
    /\ VideoIdle
    /\ completion \in Replies
    /\ learning_voices \in VoiceNames \X VoiceNames
    /\ learning_pc = "call"
    /\ learning_result = NOT_CALLED
    /\ podcast_data = [script |-> <<>>, voice_1 |-> "Andrew", voice_2 |-> "Emma"]
    /\ hashseed \in HashSeeds
    /\ voice_mapping = None
    /\ ssml = None
    /\ prev_ssml = None
    /\ calls = 0

\* lines 233-238: podcast_data is built from the response (the script items
\* as the generation made them) and the two selected voices
PodcastDataOf(response, voice_1, voice_2) ==
    [script |-> response.script, voice_1 |-> voice_1, voice_2 |-> voice_2]

\* lines 233-241: the call has returned; podcast_data is built and assembled
AssembleBilingual ==
    /\ learning_pc = "done"
    /\ ~learning_result.raised
    /\ calls = 0
    /\ calls' = 1
    /\ podcast_data' =
        PodcastDataOf(learning_result.value, learning_voices[1], learning_voices[2])
    /\ voice_mapping' = VoiceMappingOf(podcast_data', hashseed)
    /\ ssml' = podcast_script_to_ssml(podcast_data', hashseed)
    /\ prev_ssml' = ssml
    /\ UNCHANGED <<hashseed, sessionVars, learningVars, videoVars>>

NextBilingual == LearningPodcast \/ AssembleBilingual

SpecBilingual == InitBilingual /\ [][NextBilingual]_vars

-----------------------------------------------------------------------------
(* Claims about podcast_script_to_ssml.                                    *)

\* the distinct speaker names of a script in first-seen order
RECURSIVE FirstSeenFrom(_, _, _)
FirstSeenFrom(script, i, seen) ==
    IF i > Len(script) THEN <<>>
    ELSE IF script[i].name \in seen THEN FirstSeenFrom(script, i + 1, seen)
    ELSE <<script[i].name>> \o FirstSeenFrom(script, i + 1, seen \cup {script[i].name})

FirstSeen(script) == FirstSeenFrom(script, 1, {})

\* the voice block of turn i in a returned document (line 1 is the root tag)
BlockOf(doc, i) == SplitLines(doc)[i + 1]

\* C1: after a call, the speaker at first-seen position i (0-based) has voice_1
\* when i is even and voice_2 when i is odd.
C1_FirstSeenVoices ==
    calls > 0 =>
        LET fs == FirstSeen(podcast_data.script)
        IN  \A i \in DOMAIN fs :
                voice_mapping[fs[i]] =
                    IF (i - 1) % 2 = 0 THEN AZURE_HD_VOICES[podcast_data.voice_1]
                    ELSE AZURE_HD_VOICES[podcast_data.voice_2]

\* C2: two executions of podcast_script_to_ssml on the same input return
\* identical strings.
C2_Deterministic == calls = 2 => ssml = prev_ssml

\* C3: for every turn whose original message contains (CN), the rendered block
\* holds no literal (CN) and holds the zh-CN language wrapper.
C3_NoMarkerLeft ==
    calls > 0 =>
        \A i \in DOMAIN podcast_data.script :
            Contains(podcast_data.script[i].message, CN_MARKER) =>
                /\ ~Contains(BlockOf(ssml, i), CN_MARKER)
                /\ Contains(BlockOf(ssml, i), <<LANG_OPEN>>)

-----------------------------------------------------------------------------
(* Claims about the session.                                               *)

Max(a, b) == IF a >= b THEN a ELSE b

\* the first n strings of cs joined with a blank line between neighbours
RECURSIVE BlankLineJoinUpTo(_, _)
BlankLineJoinUpTo(cs, n) ==
    IF n = 0 THEN <<>>
    ELSE IF n = 1 THEN cs[1]
    ELSE BlankLineJoinUpTo(cs, n - 1) \o <<"\n", "\n">> \o cs[n]

\* the content fields of a source list joined in list order with a blank line
BlankLineJoin(list) ==
    BlankLineJoinUpTo([i \in DOMAIN list |-> list[i].content], Len(list))

\* C4: whenever the suggested token budget is computed it equals
\* min(3000 + 1000 * max(0, count - 1), 6000) for the current source count (3000,
\* 4000 and 6000 for 1, 2 and 5 sources), and lies in the slider range [1000, 6000];
\* it is computed in every run that ends with a non-empty list.
C4_SuggestedBudget ==
    LET count == Len(source_list)
    IN  /\ (rendered /\ count > 0) => max_tokens # UNBOUND
        /\ max_tokens # UNBOUND =>
            /\ max_tokens = Min(3000 + 1000 * Max(0, count - 1), 6000)
            /\ max_tokens >= SLIDER_MIN
            /\ max_tokens <= SLIDER_MAX
            /\ max_tokens <= 6000
            /\ count = 1 => max_tokens = 3000
            /\ count = 2 => max_tokens = 4000
            /\ count = 5 => max_tokens = 6000

\* five sources: the budget is capped
C4_Witness == Len(source_list) = 5 /\ max_tokens = 6000

\* C8: a step in which an add-source handler or the generate handler fails (the
\* exception is caught and shown) leaves the source list as it was.
C8_FailureKeepsSources ==
    [][last_run'.result = "error" =>
        /\ source_list' = source_list
        /\ "source_list" \in session_keys']_vars

\* a failed web submission with sources already in the list
C8_Witness == last_run = [handler |-> "web", result |-> "error"] /\ Len(source_list) = 2

\* C9: audio is shown only after a successful script generation and one synthesis
\* call that reported completion, and it is the complete audio; a cancelled
\* synthesis ends in the "Error details" exception and any other unfinished one in
\* the "Unknown exit reason" exception, with no audio; synthesis is called only
\* after a successful generation; no call is made twice.
C9_NoPartialPodcast ==
    /\ llm_calls <= 1
    /\ tts_calls <= 1
    /\ tts_calls = 1 => llm_calls = 1 /\ llm_result = "script"
    /\ audio # None =>
        /\ llm_result = "script"
        /\ tts_calls = 1
        /\ tts_result.reason = COMPLETED
        /\ audio = "complete"
    /\ tts_result.reason = CANCELED => audio = None /\ gen_error = ERROR_DETAILS
    /\ tts_result.reason \notin {COMPLETED, CANCELED, NO_RESULT.reason, SDK_RAISED.reason} =>
        audio = None /\ gen_error = UNKNOWN_EXIT
    /\ (llm_calls = 1 /\ pc = "idle" /\ llm_result # "script") =>
        tts_calls = 0 /\ audio = None /\ gen_error # None

\* a synthesis cancelled with part of the audio made
C9_Witness ==
    /\ pc = "idle"
    /\ tts_result = [reason |-> CANCELED, audio_data |-> "partial"]
    /\ gen_error = ERROR_DETAILS

\* C10 as stated: input_content is the blank-line join of the contents of the
\* current source list, the empty string when the list is empty.
C10_CombinedDocument ==
    rendered => input_content = BlankLineJoin(source_list)

\* C10 amended: while the list is not empty input_content is the blank-line join of
\* the contents of the current list, and the document handed to script generation
\* is that join; generation is requested only with a non-empty list.
C10_CombinedDocumentNonEmpty ==
    /\ source_list # <<>> =>
        /\ "input_content" \in session_keys
        /\ input_content = BlankLineJoin(source_list)
    /\ llm_calls = 1 =>
        /\ source_list # <<>>
        /\ document = BlankLineJoin(source_list)

\* two sources with different contents left after a removal
C10_Witness ==
    /\ last_run.handler = "remove"
    /\ Len(source_list) = 2
    /\ source_list[1].content # source_list[2].content

-----------------------------------------------------------------------------
(* Claims about document_to_english_learning_podcast and process_video.    *)

\* a line begins with a recognized speaker prefix
HasSpeakerPrefix(line) == StartsWith(line, HOST_1) \/ StartsWith(line, HOST_2)

\* the lines of the model reply
ReplyLinesOf(reply) == SplitLines(reply.value)

\* C6: a reply with no line that begins with "Host 1:" or "Host 2:" makes the call
\* raise the "No valid script content generated" error, and a call that returns
\* returns a script with at least one turn.
C6_EmptyScriptRaises ==
    (learning_pc = "done" /\ ~completion.raised) =>
        /\ (\A i \in DOMAIN ReplyLinesOf(completion) :
                ~HasSpeakerPrefix(ReplyLinesOf(completion)[i])) =>
            /\ learning_result.raised
            /\ learning_result.value = <<LEARNING_ERROR, NO_VALID_SCRIPT>>
        /\ ~learning_result.raised => Len(learning_result.value.script) >= 1

\* a reply of non-blank lines, none with a speaker prefix, has been refused
C6_Witness ==
    /\ learning_pc = "done"
    /\ ~completion.raised
    /\ Len(ReplyLinesOf(completion)) = 2
    /\ \A i \in DOMAIN ReplyLinesOf(completion) :
        /\ Strip(ReplyLinesOf(completion)[i]) # <<>>
        /\ ~HasSpeakerPrefix(ReplyLinesOf(completion)[i])
    /\ learning_result = Raised(<<LEARNING_ERROR, NO_VALID_SCRIPT>>)

\* C7: when process_video has returned or raised, its temporary audio file does
\* not exist.
C7_TempFileRemoved ==
    video_pc \in {"returned", "raised"} => video_bvid \notin temp_files

-----------------------------------------------------------------------------
(* Claims about the turns the bilingual generation keeps.                  *)

\* the rest of a line after its first n characters, without surrounding whitespace
RemainderAfter(line, n) == Strip(SubSeq(line, n + 1, Len(line)))

\* the turns of the lines from line i on when every non-blank line that begins
\* with a speaker prefix is one turn and every other line with a header text
\* opens a section
RECURSIVE PrefixedTurnsFrom(_, _, _, _, _)
PrefixedTurnsFrom(lines, i, section, voice_1, voice_2) ==
    IF i > Len(lines) THEN <<>>
    ELSE IF StartsWith(lines[i], HOST_1)
    THEN <<[name |-> "Host 1", message |-> RemainderAfter(lines[i], Len(HOST_1)),
            voice |-> voice_1, section |-> section]>>
         \o PrefixedTurnsFrom(lines, i + 1, section, voice_1, voice_2)
    ELSE IF StartsWith(lines[i], HOST_2)
    THEN <<[name |-> "Host 2", message |-> RemainderAfter(lines[i], Len(HOST_2)),
            voice |-> voice_2, section |-> section]>>
         \o PrefixedTurnsFrom(lines, i + 1, section, voice_1, voice_2)
    ELSE IF HeaderSection(lines[i]) # ""
    THEN PrefixedTurnsFrom(lines, i + 1, HeaderSection(lines[i]), voice_1, voice_2)
    ELSE PrefixedTurnsFrom(lines, i + 1, section, voice_1, voice_2)

\* the script of a finished call ("no turn" when it raised)
ScriptOf(result) == IF result.raised THEN <<>> ELSE result.value.script

\* C11: the turns of a bilingual generation are exactly the lines of the reply that
\* begin with "Host 1:" or "Host 2:", one turn a line and in line order, each with
\* the speaker of its prefix, the remainder of the line as message and the tag of
\* the most recent section header before it.
C11_KeepsPrefixedLines ==
    (learning_pc = "done" /\ ~completion.raised) =>
        ScriptOf(learning_result) =
            PrefixedTurnsFrom(ReplyLinesOf(completion), 1, "",
                              learning_voices[1], learning_voices[2])

-----------------------------------------------------------------------------
(* Claims about the order of the source list.                              *)

\* two items are equal (a web url is a string, a video url a formatted text)
SameItem(x, y) == x.type = y.type /\ x.url = y.url /\ x.content = y.content

\* two lists hold equal items at every position
SameList(a, b) == Len(a) = Len(b) /\ \A i \in DOMAIN a : SameItem(a[i], b[i])

\* list b is list a with one item more at its end
AppendsOne(a, b) == Len(b) = Len(a) + 1 /\ SameList(a, SubSeq(b, 1, Len(a)))

\* list b is list a without one of its items, the others in the order of a
RemovesOne(a, b) == \E idx \in 0..(Len(a) - 1) : SameList(b, Pop(a, idx))

\* the run that just ended took in a source of one of the three kinds
SourceTakenIn(run) ==
    \/ run.handler \in {"web", "video"} /\ run.result = "ok"
    \/ run.handler = "document" /\ run.result # "skipped"

\* C12: a run that takes in a document, a web page or a video appends exactly one
\* item at the end of the source list (an equal item already in the list does not
\* prevent it), and every run leaves the items that remain in the order in which
\* they were added.
C12_AppendsInOrder ==
    [][/\ SourceTakenIn(last_run') => AppendsOne(source_list, source_list')
       /\ \/ SameList(source_list, source_list')
          \/ AppendsOne(source_list, source_list')
          \/ RemovesOne(source_list, source_list')]_vars

-----------------------------------------------------------------------------
(* Claims about the shape of the assembled document.                       *)

\* how often the element x occurs in a text
Count(text, x) == Cardinality({i \in DOMAIN text : text[i] = x})

\* the element x occurs in a text
Has(text, x) == \E i \in DOMAIN text : text[i] = x

\* the last n elements of a text
Suffix(text, n) == SubSeq(text, Len(text) - n + 1, Len(text))

\* C13: the assembled document is one root element declared en-US that holds one
\* voice block for every turn, in script order; a block holds the zh-CN span and
\* the slowed prosody exactly when the original message of its turn contains (CN);
\* the content of every block ends with the 500ms pause, inside the express-as
\* wrapper.
C13_OneBlockPerTurn ==
    calls > 0 =>
        LET script == podcast_data.script
            lines == SplitLines(ssml)
        IN  /\ Len(lines) = Len(script) + 2
            /\ lines[1] = <<SPEAK_OPEN>>
            /\ lines[Len(lines)] = <<SPEAK_CLOSE>>
            /\ Count(ssml, SPEAK_OPEN) = 1 /\ Count(ssml, SPEAK_CLOSE) = 1
            /\ Count(ssml, VOICE_CLOSE) = Len(script)
            /\ \A i \in DOMAIN script :
                LET block == lines[i + 1]
                    cn == Contains(script[i].message, CN_MARKER)
                IN  /\ SubSeq(block, 1, 4) =
                            VoiceOpen(voice_mapping[script[i].name]) \o <<EXPRESS_OPEN>>
                    /\ Count(block, EXPRESS_OPEN) = 1
                    /\ Count(block, VOICE_CLOSE) = 1
                    /\ Has(block, LANG_OPEN) <=> cn
                    /\ Has(block, LANG_CLOSE) <=> cn
                    /\ Has(block, PROSODY_OPEN) <=> cn
                    /\ Suffix(block, 2) = <<EXPRESS_CLOSE, VOICE_CLOSE>>
                    /\ Count(block, BREAK_500) = 1
                    /\ IF cn
                       THEN /\ block[5] = PROSODY_OPEN
                            /\ Suffix(block, 4)
                                = <<BREAK_500, PROSODY_CLOSE, EXPRESS_CLOSE, VOICE_CLOSE>>
                       ELSE Suffix(block, 3) = <<BREAK_500, EXPRESS_CLOSE, VOICE_CLOSE>>

\* a script of a plain turn followed by a (CN) turn has been assembled
C13_Witness ==
    /\ calls > 0
    /\ Len(podcast_data.script) = 2
    /\ ~Contains(podcast_data.script[1].message, CN_MARKER)
    /\ Contains(podcast_data.script[2].message, CN_MARKER)
    /\ ~Contains(BlockOf(ssml, 1), <<PROSODY_OPEN>>)
    /\ Contains(BlockOf(ssml, 2), <<PROSODY_OPEN, LANG_OPEN>>)

-----------------------------------------------------------------------------
(* Claims about the cue tokens.                                            *)

\* one pass over the text from position i on, left to right: a cue token at the
\* position is replaced by its rendering and the pass goes on behind it, any
\* other character is kept
RECURSIVE SinglePassFrom(_, _)
SinglePassFrom(text, i) ==
    IF i > Len(text) THEN <<>>
    ELSE IF MatchAt(text, CUE_LAUGHTER, i)
    THEN HA_HA \o SinglePassFrom(text, i + Len(CUE_LAUGHTER))
    ELSE IF MatchAt(text, CUE_LAUGHS, i)
    THEN HA_HA \o SinglePassFrom(text, i + Len(CUE_LAUGHS))
    ELSE IF MatchAt(text, CUE_CHUCKLES, i)
    THEN HEH \o SinglePassFrom(text, i + Len(CUE_CHUCKLES))
    ELSE <<text[i]>> \o SinglePassFrom(text, i + 1)

SinglePass(text) == SinglePassFrom(text, 1)

\* a cue token written in another letter case
OTHER_CASE_LAUGHS == <<"[", "L", "a", "u", "g", "h", "s", "]">>

\* the text of a voice block between its wrappers (cn: the block has the
\* prosody and language wrappers)
RenderedText(block, cn) ==
    IF cn THEN SubSeq(block, 7, Len(block) - 5) ELSE SubSeq(block, 5, Len(block) - 3)

\* C14: the text rendered for a message is the single left-to-right pass over the
\* message that replaces [laughter] and [laughs] by the laugh rendering and
\* [chuckles] by the softer one (followed by the removal of the (CN) marker); no
\* cue token is left in it, and a token in another letter case stays as it is.
C14_SinglePass ==
    calls > 0 =>
        LET script == podcast_data.script
            lines == SplitLines(ssml)
        IN  \A i \in DOMAIN script :
                LET message == script[i].message
                    cn == Contains(message, CN_MARKER)
                    text == RenderedText(lines[i + 1], cn)
                IN  /\ text = IF cn THEN Replace(SinglePass(message), CN_MARKER, <<>>)
                                    ELSE SinglePass(message)
                    /\ ~Contains(text, CUE_LAUGHTER)
                    /\ ~Contains(text, CUE_LAUGHS)
                    /\ ~Contains(text, CUE_CHUCKLES)
                    /\ Contains(message, OTHER_CASE_LAUGHS)
                        => Contains(text, OTHER_CASE_LAUGHS)

\* a message with [laughs], [chuckles] and [Laughs] has been rendered
C14_Witness ==
    /\ calls > 0
    /\ Len(podcast_data.script) = 1
    /\ podcast_data.script[1].message = CUE_LAUGHS \o CUE_CHUCKLES \o OTHER_CASE_LAUGHS
    /\ BlockOf(ssml, 1) =
        VoiceOpen(voice_mapping["Andrew"]) \o <<EXPRESS_OPEN>>
            \o HA_HA \o HEH \o OTHER_CASE_LAUGHS
            \o <<BREAK_500, EXPRESS_CLOSE, VOICE_CLOSE>>

-----------------------------------------------------------------------------
(* Claims about the video handler and the initialization of the list.      *)

\* C15: in every run that handles a video submission the session already holds
\* source_list when the run starts, and a run whose video handler ends well has
\* appended its item.
C15_ListExistsForVideo ==
    [][(last_run'.handler = "video" /\ last_run'.result # "skipped") =>
            /\ "source_list" \in session_keys
            /\ last_run'.result = "ok" => AppendsOne(source_list, source_list')]_vars

\* the first source of a session is a video
C15_Witness ==
    /\ last_run = [handler |-> "video", result |-> "ok"]
    /\ Len(source_list) = 1
    /\ source_list[1].type = "bilibili"

-----------------------------------------------------------------------------
(* Claims about the voices of the bilingual mode.                          *)

\* C16: every turn of a bilingual script is rendered with the engine voice of the
\* voice the generation recorded on it: voice_1 for Host 1 and voice_2 for Host 2.
C16_RecordedVoice ==
    calls > 0 =>
        \A i \in DOMAIN podcast_data.script :
            SubSeq(BlockOf(ssml, i), 1, 3) =
                VoiceOpen(AZURE_HD_VOICES[podcast_data.script[i].voice])

=============================================================================
